---- MODULE Spec2Model ----
(***************************************************************************)
(* Model of openquake/engine/tools/restore_hazards.py: the restore of a    *)
(* hazard calculation dump.  hazard_restore stages every file of the       *)
(* manifest into a staging table (safe_restore), transfers the eight       *)
(* domain tables in a fixed order (transfer_data), drops the staging       *)
(* tables and returns the new ids of the root table.                       *)
(*                                                                         *)
(* The database is modelled as a committed state (db) and the state seen   *)
(* by the connection inside its open transaction (work).  Every SQL        *)
(* statement the code issues is a statement record interpreted by          *)
(* Execute; a statement that fails has no effect and leaves the            *)
(* transaction pending until the code rolls back.                          *)
(***************************************************************************)
EXTENDS Integers, Sequences, FiniteSets, TLC

VARIABLES
    manifest,   \* lines of FILENAMES.txt, as table names (fname[:-4])
    files,      \* content of the dump files: table -> sequence of rows
    pc,         \* position in hazard_restore
    line,       \* index of the next manifest line to stage
    created,    \* hazard_restore's list "created"
    step,       \* index of the next transfer_data call
    ids,        \* hc_ids, lt_ids, job_ids, out_ids, ses_collection_ids, ses_ids
    drop,       \* index of the next element of reversed(created) to drop
    conn,       \* the connection: committed database state (db), state seen
                \* inside the open transaction (work), transaction state
                \* (txn) and the commits and rollbacks issued so far (ops)
    ret,        \* value returned by hazard_restore
    failure,    \* the failure that was raised or absorbed
    calls,      \* history: one record per transfer_data call made
    errlog      \* history: messages passed to log.error

vars == <<manifest, files, pc, line, created, step, ids, drop, conn,
          ret, failure, calls, errlog>>

-----------------------------------------------------------------------------
(* Bounds of the model                                                     *)

\* largest number of rows a dumped table holds
MaxRows == 2

\* largest number of rows a live table holds before the restore
MaxExisting == 1

-----------------------------------------------------------------------------
(* Tables, rows and the fixed sequence of transfers                        *)

\* SQL NULL, and the value of a column that an INSERT does not name
NULL == 0

\* the call sequence of hazard_restore: model, keyword arguments in the
\* order written (foreign key column, variable holding the Id Mapping) and
\* the variable the result is assigned to ("" when it is discarded)
TransferPlan ==
    << [model |-> "HazardCalculation", foreign_keys |-> << >>,
        result |-> "hc_ids"],
       [model |-> "LtRealization",
        foreign_keys |-> << <<"hazard_calculation_id", "hc_ids">> >>,
        result |-> "lt_ids"],
       [model |-> "HazardSite",
        foreign_keys |-> << <<"hazard_calculation_id", "hc_ids">> >>,
        result |-> ""],
       [model |-> "OqJob",
        foreign_keys |-> << <<"hazard_calculation_id", "hc_ids">> >>,
        result |-> "job_ids"],
       [model |-> "Output",
        foreign_keys |-> << <<"oq_job_id", "job_ids">> >>,
        result |-> "out_ids"],
       [model |-> "SESCollection",
        foreign_keys |-> << <<"output_id", "out_ids">>,
                            <<"lt_realization_id", "lt_ids">> >>,
        result |-> "ses_collection_ids"],
       [model |-> "SES",
        foreign_keys |-> << <<"ses_collection_id", "ses_collection_ids">> >>,
        result |-> "ses_ids"],
       [model |-> "SESRupture",
        foreign_keys |-> << <<"ses_id", "ses_ids">> >>,
        result |-> ""] >>

Range(s) == {s[i] : i \in DOMAIN s}

Tables == {TransferPlan[k].model : k \in DOMAIN TransferPlan}

IdVars == {TransferPlan[k].result : k \in DOMAIN TransferPlan} \ {""}

PlanOf(t) == CHOOSE p \in Range(TransferPlan) : p.model = t

\* the foreign key columns of a table that the restore remaps
FkColumns(t) == {kv[1] : kv \in Range(PlanOf(t).foreign_keys)}

\* the tables whose rows have an owner: a foreign key of the model that no
\* call of hazard_restore remaps
Owned == {"HazardCalculation", "OqJob", "Output"}

\* model._meta.fields: the columns of the table of a model, each a foreign
\* key or not: the id, the plain columns (payload), the foreign keys that
\* the restore remaps and the owner
Fields(model) ==
    {[column |-> "id", foreign_key |-> FALSE],
     [column |-> "payload", foreign_key |-> FALSE]}
    \cup {[column |-> f, foreign_key |-> TRUE] : f \in FkColumns(model)}
    \cup {[column |-> "owner_id", foreign_key |-> TRUE] : t \in {model} \cap Owned}

\* the foreign key columns of the table of a model
ForeignKeyColumns(model) ==
    {f.column : f \in {g \in Fields(model) : g.foreign_key}}

\* the columns the INSERT copies from the staging table: every field of the
\* model that is not the id and not a ForeignKey
model_fields(model) ==
    {f.column : f \in {g \in Fields(model) :
                          g.column # "id" /\ ~g.foreign_key}}

\* name of the staging table of a table: always in the htemp schema, the
\* schema of the original name is dropped
restore_tablename(original_tablename) ==
    <<"htemp", "restore_", original_tablename>>

-----------------------------------------------------------------------------
(* The database: SQL statements and their effect                           *)

\* a function without the argument x
Without(f, x) == [y \in DOMAIN f \ {x} |-> f[y]]

\* "htemp.restore_x" of the live table of a model (model_table(model, True))
StagingOf(t) == restore_tablename(t)

Stmt(op, table, fk, arg) == [op |-> op, table |-> table, fk |-> fk, arg |-> arg]

\* the new ids that "JOIN temp_<fk>_translation USING(<fk>)" pairs with a
\* staged foreign key value: one per translation row whose old id equals it
\* (NULL equals nothing)
NewIds(hits) == [k \in DOMAIN hits |-> hits[k][2]]

\* faulty variant of JoinMatches: a LEFT JOIN, a staged value without a
\* translation row is paired with NULL
JoinMatchesLeft(translation, value) ==
    IF \E k \in DOMAIN translation : value # NULL /\ translation[k][1] = value
    THEN NewIds(SelectSeq(translation,
                          LAMBDA pair : value # NULL /\ pair[1] = value))
    ELSE << NULL >>

JoinMatches(translation, value) ==
    LET Hit(pair) == value # NULL /\ pair[1] = value
    IN  NewIds(SelectSeq(translation, Hit))

\* the rows of the join of one staged row with the translation tables of
\* fks: every combination of matching new ids, as functions fk -> new id
\* every pairing of a new id of m for fk with a combination of rest
Combine(fk, m, rest) ==
    [k \in 1..(Len(m) * Len(rest)) |->
        [f \in DOMAIN rest[1] \cup {fk} |->
            IF f = fk THEN m[((k - 1) \div Len(rest)) + 1]
            ELSE rest[((k - 1) % Len(rest)) + 1][f]]]

RECURSIVE JoinKeys(_, _, _)
JoinKeys(row, fks, st) ==
    IF fks = << >>
    THEN << [f \in {} |-> NULL] >>
    ELSE Combine(Head(fks),
                 JoinMatches(st.translation[Head(fks)], row.fk[Head(fks)]),
                 JoinKeys(row, Tail(fks), st))

\* FROM <restore_table> AS restore <fk_joins>: the joined rows in the order
\* of the staged rows
WithKeys(row, keys) == [k \in DOMAIN keys |-> [row |-> row, new_fk |-> keys[k]]]

RECURSIVE JoinRows(_, _, _)
JoinRows(rows, fks, st) ==
    IF rows = << >>
    THEN << >>
    ELSE WithKeys(Head(rows), JoinKeys(Head(rows), fks, st))
         \o JoinRows(Tail(rows), fks, st)

\* faulty variant of InsertedRow: the foreign keys are copied from staging
InsertedRowStagedFk(t, joined, fks, new_id) ==
    [id         |-> new_id,
     restore_id |-> joined.row.id,
     payload    |-> joined.row.payload,
     fk         |-> [f \in ForeignKeyColumns(t) |-> joined.row.fk[f]]]

\* faulty variant of InsertedRow: the row keeps the id it has in the staging table
InsertedRowStagedId(t, joined, fks, new_id) ==
    [id         |-> joined.row.id,
     restore_id |-> joined.row.id,
     payload    |-> IF "payload" \in model_fields(t)
                    THEN joined.row.payload ELSE <<t, NULL>>,
     fk         |-> [f \in ForeignKeyColumns(t) |->
                        IF f \in Range(fks) THEN joined.new_fk[f]
                        ELSE IF f \in model_fields(t) THEN joined.row.fk[f]
                        ELSE NULL]]

\* the live row INSERT ... SELECT builds from one joined row: the generated
\* id, restore_id from the staged id, the columns of model_fields from
\* staging, each remapped foreign key from its translation table, any other
\* column unset
InsertedRow(t, joined, fks, new_id) ==
    [id         |-> new_id,
     restore_id |-> joined.row.id,
     payload    |-> IF "payload" \in model_fields(t)
                    THEN joined.row.payload ELSE <<t, NULL>>,
     fk         |-> [f \in ForeignKeyColumns(t) |->
                        IF f \in Range(fks) THEN joined.new_fk[f]
                        ELSE IF f \in model_fields(t) THEN joined.row.fk[f]
                        ELSE NULL]]

\* the condition under which the database rejects a statement
Rejected(s, st) ==
    CASE s.op = "DROP TABLE IF EXISTS" -> FALSE
      [] s.op = "CREATE TABLE AS"      -> s.table \in DOMAIN st.staging
      [] s.op = "COPY"                 -> s.table \notin DOMAIN st.staging
      [] s.op = "ADD restore_id"       -> s.table \in st.helper
      [] s.op = "CREATE translation"   -> s.fk \in DOMAIN st.translation
      [] s.op = "INSERT translation"   ->
             \/ s.fk \notin DOMAIN st.translation
             \/ s.arg = << >>               \* "VALUES " with no row: syntax error
      [] s.op = "INSERT SELECT"        ->
             \/ StagingOf(s.table) \notin DOMAIN st.staging
             \/ s.table \notin st.helper
             \/ \E f \in Range(s.arg) : f \notin DOMAIN st.translation
      [] s.op = "DROP restore_id"      -> s.table \notin st.helper
      [] s.op = "DROP translation"     -> s.fk \notin DOMAIN st.translation
      [] s.op = "DROP TABLE"           -> s.table \notin DOMAIN st.staging

\* faulty variant of ReturnedIds: RETURNING gives the staged id twice
ReturnedIdsStaged(joined, last_id) ==
    [k \in DOMAIN joined |-> <<joined[k].row.id, joined[k].row.id>>]

\* the rows RETURNING restore_id, <table>.id gives for the joined rows
ReturnedIds(joined, last_id) ==
    [k \in DOMAIN joined |-> <<joined[k].row.id, last_id + k>>]

\* the rows a statement returns to curs.fetchall()
Returned(s, st) ==
    IF s.op = "INSERT SELECT"
    THEN ReturnedIds(JoinRows(st.staging[StagingOf(s.table)], s.arg, st),
                     st.sequence[s.table])
    ELSE << >>

\* the database after the INSERT ... SELECT of the joined rows: each gets
\* the next value of the sequence of the table as id
Inserted(s, st, joined) ==
    [st EXCEPT !.live[s.table] =
                   @ \o [k \in DOMAIN joined |->
                            InsertedRow(s.table, joined[k], s.arg,
                                        st.sequence[s.table] + k)],
               !.sequence[s.table] = @ + Len(joined)]

\* the database state after a statement that is not rejected
Effect(s, st) ==
    CASE s.op = "DROP TABLE IF EXISTS" ->
             [st EXCEPT !.staging = Without(@, s.table)]
      [] s.op = "CREATE TABLE AS" ->
             [st EXCEPT !.staging = (s.table :> << >>) @@ @]
      [] s.op = "COPY" ->
             [st EXCEPT !.staging[s.table] = @ \o s.arg]
      [] s.op = "ADD restore_id" ->
             [st EXCEPT !.helper = @ \cup {s.table}]
      [] s.op = "CREATE translation" ->
             [st EXCEPT !.translation = (s.fk :> << >>) @@ @]
      [] s.op = "INSERT translation" ->
             [st EXCEPT !.translation[s.fk] = @ \o s.arg]
      [] s.op = "INSERT SELECT" ->
             Inserted(s, st, JoinRows(st.staging[StagingOf(s.table)], s.arg, st))
      [] s.op = "DROP restore_id" ->
             [st EXCEPT !.helper = @ \ {s.table},
                        !.live[s.table] =
                            [k \in DOMAIN @ |-> [@[k] EXCEPT !.restore_id = NULL]]]
      [] s.op = "DROP translation" ->
             [st EXCEPT !.translation = Without(@, s.fk)]
      [] s.op = "DROP TABLE" ->
             [st EXCEPT !.staging = Without(@, s.table)]

\* curs.execute over a sequence of statements, stopping at the first that
\* fails: statement number fault fails for a reason outside the model (lost
\* connection, lock, permission, malformed file), a rejected statement
\* fails by itself.  A failed statement changes nothing.
WithRows(result, rows) == [result EXCEPT !.rows = rows]

RECURSIVE Execute(_, _, _, _)
Execute(stmts, k, st, fault) ==
    IF k > Len(stmts)
    THEN [ok |-> TRUE, st |-> st, at |-> 0, rejected |-> FALSE, rows |-> << >>]
    ELSE IF k = fault \/ Rejected(stmts[k], st)
    THEN [ok |-> FALSE, st |-> st, at |-> k,
          rejected |-> Rejected(stmts[k], st), rows |-> << >>]
    ELSE IF stmts[k].op = "INSERT SELECT"
    THEN WithRows(Execute(stmts, k + 1, Effect(stmts[k], st), fault),
                  Returned(stmts[k], st))
    ELSE Execute(stmts, k + 1, Effect(stmts[k], st), fault)

-----------------------------------------------------------------------------
(* The connection (psycopg2): a transaction opens with the first statement *)
(* and ends with commit or rollback                                        *)

\* conn.commit()
Commit(c) ==
    [c EXCEPT !.db = c.work, !.txn = "idle", !.ops = Append(@, "commit")]

\* conn.rollback()
Rollback(c) ==
    [c EXCEPT !.work = c.db, !.txn = "idle", !.ops = Append(@, "rollback")]

\* the connection and the outcome after curs.execute of a sequence of
\* statements with result r; after a failure the transaction stays pending
\* (aborted) until the code ends it
Executed(c, stmts, r) ==
    [ok       |-> r.ok,
     conn     |-> [c EXCEPT !.work = r.st,
                            !.txn = IF r.ok THEN "open" ELSE "failed"],
     stmt     |-> IF r.ok THEN "" ELSE stmts[r.at].op,
     rejected |-> r.rejected,
     rows     |-> r.rows]

Run(c, stmts, fault) == Executed(c, stmts, Execute(stmts, 1, c.work, fault))

NoFailure == [phase |-> "", stmt |-> "", rejected |-> FALSE]

-----------------------------------------------------------------------------
(* safe_restore(curs, filename, original_tablename)                        *)

\* faulty variant of StagingStatements: the file is loaded into the table
\* that is there, which is neither dropped nor created
StagingStatementsInPlace(tablename, rows) ==
    << Stmt("COPY", tablename, "", rows) >>

\* the three statements of safe_restore
StagingStatements(tablename, rows) ==
    << Stmt("DROP TABLE IF EXISTS", tablename, "", << >>),
       Stmt("CREATE TABLE AS", tablename, "", << >>),
       Stmt("COPY", tablename, "", rows) >>

\* faulty variant of StagingFailed: the rollback is missing
StagingFailedNoRollback(r) ==
    [raised  |-> TRUE,
     conn    |-> r.conn,
     logged  |-> << r.stmt >>,
     failure |-> [phase |-> "staging", stmt |-> r.stmt, rejected |-> r.rejected]]

\* faulty variant of StagingFailed: the statements before the failing one
\* are committed
StagingFailedCommits(r) ==
    [raised  |-> TRUE,
     conn    |-> Commit(r.conn),
     logged  |-> << r.stmt >>,
     failure |-> [phase |-> "staging", stmt |-> r.stmt, rejected |-> r.rejected]]

\* the except branch of safe_restore: rollback, log.error, raise
StagingFailed(r) ==
    [raised  |-> TRUE,
     conn    |-> Rollback(r.conn),
     logged  |-> << r.stmt >>,
     failure |-> [phase |-> "staging", stmt |-> r.stmt, rejected |-> r.rejected]]

\* the else branch of safe_restore: commit
StagingDone(r) ==
    [raised  |-> FALSE,
     conn    |-> Commit(r.conn),
     logged  |-> << >>,
     failure |-> NoFailure]

\* try: ... except: ... else: ...
StagingOutcome(r) == IF r.ok THEN StagingDone(r) ELSE StagingFailed(r)

safe_restore(c, rows, original_tablename, fault) ==
    StagingOutcome(
        Run(c, StagingStatements(restore_tablename(original_tablename), rows),
            fault))

-----------------------------------------------------------------------------
(* transfer_data(curs, model, **foreign_keys)                              *)

\* faulty variant of TransferStatements: the translation tables are not dropped
TransferStatementsNoDrop(model, foreign_keys) ==
    << Stmt("ADD restore_id", model, "", << >>) >>
    \o [k \in 1..(2 * Len(foreign_keys)) |->
           IF k % 2 = 1
           THEN Stmt("CREATE translation", model,
                     foreign_keys[(k + 1) \div 2][1], << >>)
           ELSE Stmt("INSERT translation", model,
                     foreign_keys[k \div 2][1], foreign_keys[k \div 2][2])]
    \o << Stmt("INSERT SELECT", model, "",
               [k \in DOMAIN foreign_keys |-> foreign_keys[k][1]]),
          Stmt("DROP restore_id", model, "", << >>) >>

\* faulty variant of TransferStatements: restore_id is not dropped
TransferStatementsKeepsRestoreId(model, foreign_keys) ==
    << Stmt("ADD restore_id", model, "", << >>) >>
    \o [k \in 1..(2 * Len(foreign_keys)) |->
           IF k % 2 = 1
           THEN Stmt("CREATE translation", model,
                     foreign_keys[(k + 1) \div 2][1], << >>)
           ELSE Stmt("INSERT translation", model,
                     foreign_keys[k \div 2][1], foreign_keys[k \div 2][2])]
    \o << Stmt("INSERT SELECT", model, "",
               [k \in DOMAIN foreign_keys |-> foreign_keys[k][1]]) >>
    \o [k \in DOMAIN foreign_keys |->
           Stmt("DROP translation", model, foreign_keys[k][1], << >>)]

\* the statements of transfer_data; foreign_keys is the sequence of
\* <<foreign key column, id_mapping>> in the iteration order of the dict
TransferStatements(model, foreign_keys) ==
    << Stmt("ADD restore_id", model, "", << >>) >>
    \o [k \in 1..(2 * Len(foreign_keys)) |->
           IF k % 2 = 1
           THEN Stmt("CREATE translation", model,
                     foreign_keys[(k + 1) \div 2][1], << >>)
           ELSE Stmt("INSERT translation", model,
                     foreign_keys[k \div 2][1], foreign_keys[k \div 2][2])]
    \o << Stmt("INSERT SELECT", model, "",
               [k \in DOMAIN foreign_keys |-> foreign_keys[k][1]]),
          Stmt("DROP restore_id", model, "", << >>) >>
    \o [k \in DOMAIN foreign_keys |->
           Stmt("DROP translation", model, foreign_keys[k][1], << >>)]

\* faulty variant of TransferFailed: the exception is swallowed
TransferFailedSwallowed(r) ==
    [raised      |-> FALSE,
     conn        |-> r.conn,
     old_new_ids |-> << >>,
     failure     |-> [phase |-> "transfer", stmt |-> r.stmt,
                      rejected |-> r.rejected]]

\* a statement of transfer_data raised: nothing catches it, the
\* transaction is neither committed nor rolled back
TransferFailed(r) ==
    [raised      |-> TRUE,
     conn        |-> r.conn,
     old_new_ids |-> << >>,
     failure     |-> [phase |-> "transfer", stmt |-> r.stmt,
                      rejected |-> r.rejected]]

\* faulty variant of TransferDone: the commit is missing
TransferDoneNoCommit(r) ==
    [raised      |-> FALSE,
     conn        |-> r.conn,
     old_new_ids |-> r.rows,
     failure     |-> NoFailure]

\* all statements succeeded: commit and return the fetched rows
TransferDone(r) ==
    [raised      |-> FALSE,
     conn        |-> Commit(r.conn),
     old_new_ids |-> r.rows,
     failure     |-> NoFailure]

TransferOutcome(r) == IF r.ok THEN TransferDone(r) ELSE TransferFailed(r)

transfer_data(c, model, foreign_keys, fault) ==
    TransferOutcome(Run(c, TransferStatements(model, foreign_keys), fault))

-----------------------------------------------------------------------------
(* The dumps, manifests and initial databases the model is run on          *)

\* row i of a dump in which every child row i references parent row i and
\* has owner i;
\* payload stands for the plain columns of the row
FullRow(t, i) ==
    [id |-> i, payload |-> <<t, i>>,
     fk |-> [f \in ForeignKeyColumns(t) |-> i]]

\* the dump of a database whose eight tables hold n rows each
Full(n) == [t \in Tables |-> [i \in 1..n |-> FullRow(t, i)]]

RemoveRow(d, t, i) ==
    [d EXCEPT ![t] = SubSeq(@, 1, i - 1) \o SubSeq(@, i + 1, Len(@))]

SetFk(d, t, i, f, v) == [d EXCEPT ![t][i].fk[f] = v]

\* the dumps: a full dump, a full dump with one row missing, a full dump
\* with one foreign key NULL, dangling or pointing to another parent.  The
\* ids of a file are unique, as in the dump of a table with a primary key.
Dumps ==
    UNION { {Full(n)}
            \cup {RemoveRow(Full(n), t, i) : t \in Tables, i \in 1..n}
            \cup UNION {{SetFk(Full(n), t, i, f, v) : f \in FkColumns(t), v \in 0..MaxRows}
                        : t \in Tables, i \in 1..n}
          : n \in 1..MaxRows }

\* FILENAMES.txt in the order of the transfers
BaseManifest == [k \in DOMAIN TransferPlan |-> TransferPlan[k].model]

\* faulty variant of Reverse: the order is kept
ReverseKeepsOrder(s) == s

Reverse(s) == [k \in DOMAIN s |-> s[Len(s) + 1 - k]]

\* the manifests: both orders, complete, with one file missing or with one
\* file listed twice
Manifests ==
    UNION { {m}
            \cup {SubSeq(m, 1, k - 1) \o SubSeq(m, k + 1, Len(m)) : k \in DOMAIN m}
            \cup {Append(m, t) : t \in Tables}
          : m \in {BaseManifest, Reverse(BaseManifest)} }

\* a row a live or staging table holds before the restore
ExistingRow(t, i) ==
    [id |-> i, restore_id |-> NULL, payload |-> <<t, 0>>,
     fk |-> [f \in ForeignKeyColumns(t) |-> NULL]]

\* number of rows of live table t before the restore
Existing(t, pre) ==
    LET k == CHOOSE j \in DOMAIN TransferPlan : TransferPlan[j].model = t
    IN  (pre + k) % (MaxExisting + 1)

\* the database before the restore: live tables with their rows and
\* sequences, and the staging tables left over from an earlier run
InitialDb(pre, leftover) ==
    [staging     |-> [name \in {restore_tablename(t) : t \in leftover} |->
                         << [id |-> 1, payload |-> <<"stale", 0>>,
                             fk |-> [f \in {} |-> NULL]] >>],
     live        |-> [t \in Tables |->
                         [i \in 1..Existing(t, pre) |-> ExistingRow(t, i)]],
     helper      |-> {},
     translation |-> [f \in {} |-> << >>],
     sequence    |-> [t \in Tables |-> Existing(t, pre)]]

Scenarios ==
    {[files |-> d, manifest |-> BaseManifest, leftover |-> {}] : d \in Dumps}
    \cup {[files |-> Full(n), manifest |-> m, leftover |-> {}]
            : n \in 1..MaxRows, m \in Manifests}
    \cup {[files |-> Full(n), manifest |-> BaseManifest, leftover |-> {t}]
            : n \in 1..MaxRows, t \in Tables}

-----------------------------------------------------------------------------
(* hazard_restore(conn, directory)                                         *)

Init ==
    \E pre \in 0..MaxExisting, sc \in Scenarios :
        /\ manifest = sc.manifest
        /\ files = sc.files
        /\ pc = "staging"
        /\ line = 1
        /\ created = << >>
        /\ step = 1
        /\ ids = [v \in IdVars |-> << >>]
        /\ drop = 1
        /\ conn = [db |-> InitialDb(pre, sc.leftover),
                   work |-> InitialDb(pre, sc.leftover),
                   txn |-> "idle", ops |-> << >>]
        /\ ret = [returned |-> FALSE, value |-> << >>]
        /\ failure = NoFailure
        /\ calls = << >>
        /\ errlog = << >>

\* what hazard_restore does with the outcome r of safe_restore: go on
\* with the next line, or leave with the exception
AfterStaging(r) ==
    /\ conn' = r.conn
    /\ errlog' = errlog \o r.logged
    /\ failure' = r.failure
    /\ line' = IF r.raised THEN line ELSE line + 1
    /\ pc' = IF r.raised THEN "aborted"
             ELSE IF line = Len(manifest) THEN "transfer"
             ELSE "staging"

\* the body of the loop over the manifest: created.append(tname);
\* safe_restore(curs, fullname, tname)
Stage ==
    /\ pc = "staging"
    /\ line \in DOMAIN manifest
    /\ created' = Append(created, manifest[line])
    /\ \E fault \in 0..3 :
          AfterStaging(safe_restore(conn, files[manifest[line]],
                                    manifest[line], fault))
    /\ UNCHANGED <<manifest, files, step, ids, drop, ret, calls>>

\* faulty variant of Arguments: every keyword gets the mapping of the root table
ArgumentsOfRoot(p, vals) ==
    [k \in DOMAIN p.foreign_keys |-> <<p.foreign_keys[k][1], vals["hc_ids"]>>]

\* the keyword arguments of a call of the plan, with the values the
\* variables hold now
Arguments(p, vals) ==
    [k \in DOMAIN p.foreign_keys |->
        <<p.foreign_keys[k][1], vals[p.foreign_keys[k][2]]>>]

\* the orders in which a dict of at most two keys can be iterated
Orders(args) == {args, Reverse(args)}

\* what hazard_restore does with the outcome r of call number step of the
\* plan: assign the result and go on, or leave with the exception
AfterTransfer(p, args, r) ==
    /\ conn' = r.conn
    /\ failure' = r.failure
    /\ calls' = Append(calls, [model |-> p.model,
                               foreign_keys |-> Range(args),
                               raised |-> r.raised,
                               old_new_ids |-> r.old_new_ids])
    /\ ids' = IF r.raised \/ p.result = "" THEN ids
              ELSE [ids EXCEPT ![p.result] = r.old_new_ids]
    /\ step' = IF r.raised THEN step ELSE step + 1
    /\ pc' = IF r.raised THEN "aborted"
             ELSE IF step = Len(TransferPlan) THEN "cleanup"
             ELSE "transfer"

\* the statement of a transfer that fails for an outside reason (0: none)
TransferFaults(p) == 0..(3 + 3 * Len(p.foreign_keys))

\* one call of transfer_data of the sequence of hazard_restore, and the
\* assignment of its result.  An exception leaves hazard_restore.
Transfer ==
    /\ pc = "transfer"
    /\ step \in DOMAIN TransferPlan
    /\ \E foreign_keys \in Orders(Arguments(TransferPlan[step], ids)),
          fault \in TransferFaults(TransferPlan[step]) :
          AfterTransfer(TransferPlan[step],
                        Arguments(TransferPlan[step], ids),
                        transfer_data(conn, TransferPlan[step].model,
                                      foreign_keys, fault))
    /\ UNCHANGED <<manifest, files, line, created, drop, ret, errlog>>

\* faulty variant of ReturnValue: the old ids are returned
ReturnValueOldIds(hc_ids) == [k \in DOMAIN hc_ids |-> << hc_ids[k][1] >>]

\* return [new_id for _, new_id in hc_ids]; each element of the returned
\* list is written as the tuple of its components, here the new id alone
ReturnValue(hc_ids) == [k \in DOMAIN hc_ids |-> << hc_ids[k][2] >>]

\* faulty variant of CleanupFailed: the drops made so far are committed
CleanupFailedCommits(c) == Commit(c)

\* faulty variant of CleanupFailed: the transaction is left as it is
CleanupFailedNoRollback(c) == c

\* the except branch of the cleanup: one rollback for the whole loop
CleanupFailed(c) == Rollback(c)

\* faulty variant of CleanupDone: the commit is missing
CleanupDoneNoCommit(c) == c

\* the else branch of the cleanup, reached after the last drop
CleanupDone(c) == Commit(c)

\* the statement of one iteration of the cleanup loop
CleanupStatements(tname) ==
    << Stmt("DROP TABLE", restore_tablename(tname), "", << >>) >>

\* the cleanup after the drop with outcome r: the next iteration, or the
\* end of the try statement and the return
AfterDrop(r, last) ==
    /\ conn' = IF ~r.ok THEN CleanupFailed(r.conn)
               ELSE IF last THEN CleanupDone(r.conn)
               ELSE r.conn
    /\ failure' = IF r.ok THEN failure
                  ELSE [phase |-> "cleanup", stmt |-> r.stmt,
                        rejected |-> r.rejected]
    /\ drop' = IF r.ok THEN drop + 1 ELSE drop
    /\ pc' = IF r.ok /\ ~last THEN "cleanup" ELSE "done"
    /\ ret' = IF r.ok /\ ~last THEN ret
              ELSE [returned |-> TRUE, value |-> ReturnValue(ids["hc_ids"])]

\* one iteration of the loop over reversed(created); the loop is inside
\* the try, so a failing drop ends it, and after the loop or the failure
\* hazard_restore returns
Cleanup ==
    /\ pc = "cleanup"
    /\ drop \in DOMAIN created
    /\ \E fault \in 0..1 :
          AfterDrop(Run(conn, CleanupStatements(Reverse(created)[drop]), fault),
                    drop = Len(created))
    /\ UNCHANGED <<manifest, files, line, created, step, ids, calls, errlog>>

Next == Stage \/ Transfer \/ Cleanup

Spec == Init /\ [][Next]_vars

-----------------------------------------------------------------------------
(* Properties                                                              *)

\* the foreign-key graph the properties are stated against: the table each
\* remapped foreign key column references
ReferencedTable(fk) ==
    CASE fk = "hazard_calculation_id" -> "HazardCalculation"
      [] fk = "oq_job_id"             -> "OqJob"
      [] fk = "output_id"             -> "Output"
      [] fk = "lt_realization_id"     -> "LtRealization"
      [] fk = "ses_collection_id"     -> "SESCollection"
      [] fk = "ses_id"                -> "SES"

\* the tables a table references through a remapped foreign key
ReferencedBy(t) ==
    CASE t = "HazardCalculation" -> {}
      [] t = "LtRealization"     -> {"HazardCalculation"}
      [] t = "HazardSite"        -> {"HazardCalculation"}
      [] t = "OqJob"             -> {"HazardCalculation"}
      [] t = "Output"            -> {"OqJob"}
      [] t = "SESCollection"     -> {"Output", "LtRealization"}
      [] t = "SES"               -> {"SESCollection"}
      [] t = "SESRupture"        -> {"SES"}

\* the calls of transfer_data for table t that returned
Transferred(t) == {k \in DOMAIN calls : calls[k].model = t /\ ~calls[k].raised}

\* all eight transfers of the run have returned
AllTransferred == Len(calls) = Len(TransferPlan) /\ ~calls[Len(calls)].raised

\* C1: a table is transferred only after every table it references through
\* a remapped foreign key has been transferred successfully, and the Id
\* Mapping passed for each foreign key is the one that transfer returned.
C1_DependencyOrder ==
    \A k \in DOMAIN calls :
        /\ {ReferencedTable(kv[1]) : kv \in calls[k].foreign_keys}
               = ReferencedBy(calls[k].model)
        /\ \A kv \in calls[k].foreign_keys :
               \E j \in 1..(k - 1) :
                   /\ calls[j].model = ReferencedTable(kv[1])
                   /\ ~calls[j].raised
                   /\ calls[j].old_new_ids = kv[2]

\* a complete run in which the last table, SESRupture, received the mapping
\* returned for SES, which differs from the mapping of the root
C1_Witness ==
    /\ pc = "done"
    /\ AllTransferred
    /\ calls[Len(calls)].foreign_keys = {<<"ses_id", ids["ses_ids"]>>}
    /\ ids["ses_ids"] # ids["hc_ids"]
    /\ ids["ses_ids"] # << >>

\* the new id an Id Mapping pairs with an old id (NULL when it has none)
NewIdOf(mapping, old_id) ==
    IF \E k \in DOMAIN mapping : mapping[k][1] = old_id
    THEN mapping[CHOOSE k \in DOMAIN mapping : mapping[k][1] = old_id][2]
    ELSE NULL

\* the Id Mapping the run passed to the transfer of t for foreign key f
PassedMapping(k, f) ==
    (CHOOSE kv \in calls[k].foreign_keys : kv[1] = f)[2]

\* every row of the dump of t references, by each foreign key, a dumped row
\* of the referenced table
Closed(t) ==
    \A r \in Range(files[t]) : \A f \in FkColumns(t) :
        \E q \in Range(files[ReferencedTable(f)]) : q.id = r.fk[f]

\* the chain from the root down to t is fully present in the dump
RECURSIVE ChainPresent(_)
ChainPresent(t) ==
    /\ Closed(t)
    /\ \A f \in FkColumns(t) : ChainPresent(ReferencedTable(f))

\* C2: once a table whose chain is fully present in the dump has been
\* transferred, every staged row of it is a live row carrying the new id of
\* the returned mapping, and each remapped foreign key of that row is the new
\* id that the mapping of the parent pairs with the staged foreign key value.
C2_ChainIntegrity ==
    \A k \in DOMAIN calls :
        (~calls[k].raised /\ ChainPresent(calls[k].model)) =>
            \A r \in Range(files[calls[k].model]) :
                \E l \in Range(conn.db.live[calls[k].model]) :
                    /\ l.payload = r.payload
                    /\ <<r.id, l.id>> \in Range(calls[k].old_new_ids)
                    /\ \A f \in FkColumns(calls[k].model) :
                           /\ l.fk[f] # NULL
                           /\ l.fk[f] = NewIdOf(PassedMapping(k, f), r.fk[f])
                           /\ \E q \in Range(conn.db.live[ReferencedTable(f)]) :
                                  q.id = l.fk[f]

\* a finished restore of a dump whose chain down to SESRupture (a grandchild
\* of SESCollection) is fully present, where a remapped foreign key differs
\* from the staged value
C2_Witness ==
    /\ pc = "done"
    /\ AllTransferred
    /\ ChainPresent("SESRupture")
    /\ \E l \in Range(conn.db.live["SESRupture"]) :
           \E r \in Range(files["SESRupture"]) :
               l.payload = r.payload /\ l.fk["ses_id"] # r.fk["ses_id"]

\* the staged rows of call k for which every remapped foreign key has an
\* entry in the Id Mapping passed for it
Eligible(k) ==
    {r \in Range(files[calls[k].model]) :
        \A kv \in calls[k].foreign_keys :
            \E j \in DOMAIN kv[2] : kv[2][j][1] = r.fk[kv[1]]}

\* the live rows of table t that come from the dump
Restored(t) == {l \in Range(conn.db.live[t]) : l.payload[2] # 0}

\* C3: a staged row with a remapped foreign key value that has no entry in
\* the Id Mapping produces neither a live row nor a mapping entry, every
\* other staged row is inserted, and no transfer raises because translation
\* entries are missing, whatever the size of the Id Mapping passed.
C3_ExclusionPropagation ==
    /\ \A k \in DOMAIN calls :
           ~calls[k].raised =>
               /\ {pair[1] : pair \in Range(calls[k].old_new_ids)}
                      = {r.id : r \in Eligible(k)}
               /\ {l.payload : l \in Restored(calls[k].model)}
                      = {r.payload : r \in Eligible(k)}
    /\ ~(failure.phase = "transfer" /\ failure.rejected
            /\ failure.stmt = "INSERT translation")

\* the staging tables of the run that exist in the committed database
Remaining == {t \in Range(created) : restore_tablename(t) \in DOMAIN conn.db.staging}

\* C4 as stated: whenever hazard_restore completes, every staging call and
\* every transfer having succeeded, none of the staging tables created
\* during the run still exists.
C4_Original == pc = "done" => Remaining = {}

\* C4 as amended: whenever hazard_restore completes with every staging call,
\* every transfer and every drop of the cleanup having succeeded, none of the
\* staging tables created during the run still exists.
C4_CleanupCompleteness ==
    (pc = "done" /\ failure = NoFailure) =>
        /\ Remaining = {}
        /\ conn.work = conn.db
        /\ conn.txn = "idle"

\* a finished run without any failure that staged all eight tables
C4_Witness ==
    /\ pc = "done"
    /\ failure = NoFailure
    /\ Range(created) = Tables
    /\ drop = Len(created) + 1

\* the table whose drop failed in the cleanup
FailedDrop == Reverse(created)[drop]

\* C5 as stated: when dropping one recorded staging table fails, cleanup
\* continues, so every recorded staging table whose own drop does not fail no
\* longer exists when hazard_restore returns.
C5_Original ==
    (pc = "done" /\ failure.phase = "cleanup") => Remaining \subseteq {FailedDrop}

\* C5 as amended: when dropping one recorded staging table fails, the failure
\* is caught, the cleanup transaction is rolled back and no further drop is
\* attempted: every recorded staging table, also those dropped earlier in
\* this cleanup, still exists with its rows when hazard_restore returns, and
\* hazard_restore returns normally.
C5_CleanupRolledBack ==
    (pc = "done" /\ failure.phase = "cleanup") =>
        /\ Remaining = Range(created)
        /\ \A t \in Range(created) :
               conn.db.staging[restore_tablename(t)] = files[t]
        /\ conn.work = conn.db
        /\ conn.txn = "idle"
        /\ ret.returned

\* a run whose cleanup failed after at least one successful drop
C5_Witness ==
    /\ pc = "done"
    /\ failure.phase = "cleanup"
    /\ drop > 1

\* one step of the run stays within Start -> Staging -> Transfer -> Cleanup
\* -> Done, with Aborted reached from Staging and Transfer only
C6_Step ==
    /\ pc = "staging"  => pc' \in {"staging", "transfer", "aborted"}
    /\ pc = "transfer" => pc' \in {"transfer", "cleanup", "aborted"}
    /\ pc = "cleanup"  => pc' \in {"cleanup", "done"}
    /\ pc \notin {"done", "aborted"}
    /\ pc # "staging" => (created' = created /\ line' = line)
    /\ calls' # calls => (pc = "transfer" /\ created = manifest
                          /\ line = Len(manifest) + 1)
    /\ (drop' # drop \/ ~(DOMAIN conn.work.staging \subseteq DOMAIN conn'.work.staging))
           => (pc = "cleanup" /\ AllTransferred)
    /\ (pc' = "aborted") = (failure'.phase \in {"staging", "transfer"})
    /\ pc' = "aborted" => ~ret'.returned
    /\ failure'.phase = "cleanup" => pc' = "done"
    /\ pc' = "done" => ret'.returned

\* C6: the run follows Start -> Staging -> Transfer -> Cleanup -> Done: no
\* transfer before every manifest entry is staged, no staging table dropped
\* before every transfer has succeeded, a failure in Staging or Transfer
\* leads to Aborted with no further step, a failure in Cleanup is absorbed
\* and the run reaches Done and returns.
C6_StateMachine == [][C6_Step]_vars

\* a run that reached Done and returned although its cleanup failed
C6_Witness ==
    /\ pc = "done"
    /\ failure.phase = "cleanup"
    /\ ret.returned
    /\ AllTransferred

\* C7: when a statement of safe_restore fails, the transaction is rolled
\* back, the error is logged, the exception leaves hazard_restore, no later
\* manifest entry is staged and no transfer_data call is made.
C7_StagingFailure ==
    failure.phase = "staging" =>
        /\ pc = "aborted"
        /\ conn.txn = "idle"
        /\ conn.work = conn.db
        /\ Len(conn.ops) = line
        /\ conn.ops[line] = "rollback"
        /\ \A k \in 1..(line - 1) : conn.ops[k] = "commit"
        /\ errlog = << failure.stmt >>
        /\ created = SubSeq(manifest, 1, line)
        /\ calls = << >>
        /\ ~ret.returned

\* the bulk load of the third manifest entry failed
C7_Witness ==
    /\ failure.phase = "staging"
    /\ failure.stmt = "COPY"
    /\ line = 3

\* C8: if any step of transfer_data fails the transaction is rolled back:
\* no uncommitted work is pending on the connection and the database holds
\* no row inserted by this transfer, no helper column and no translation
\* table.
C8_TransferRollback ==
    failure.phase = "transfer" =>
        /\ conn.txn = "idle"
        /\ conn.work = conn.db
        /\ conn.db.helper = {}
        /\ DOMAIN conn.db.translation = {}
        /\ Restored(TransferPlan[step].model) = {}

\* C9 as stated: the value returned by hazard_restore is the Id Mapping
\* returned for the root table, the (old_id, new_id) pairs.
C9_Original ==
    pc = "done" => ret.value = calls[1].old_new_ids

\* C9 as amended: on a successful run the value returned by hazard_restore
\* is the list of the new ids of the Id Mapping returned for the root table
\* (the second component of each pair, in the order of the pairs), one per
\* inserted root row.
C9_ReturnsNewRootIds ==
    pc = "done" =>
        /\ ret.returned
        /\ calls[1].model = "HazardCalculation"
        /\ Len(ret.value) = Len(calls[1].old_new_ids)
        /\ \A k \in DOMAIN ret.value :
               ret.value[k] = << calls[1].old_new_ids[k][2] >>
        /\ {v[1] : v \in Range(ret.value)}
               = {l.id : l \in Restored("HazardCalculation")}
        /\ Len(ret.value) = Cardinality(Restored("HazardCalculation"))

\* a finished run that returned two new root ids, different from the old
C9_Witness ==
    /\ pc = "done"
    /\ Len(ret.value) = 2
    /\ \A k \in DOMAIN ret.value :
           ret.value[k][1] # calls[1].old_new_ids[k][1]

\* C10: the Id Mapping returned by a successful transfer_data call holds
\* exactly one pair (original staging id, new live id) per inserted row, no
\* pair for a row that was not inserted, and no old id and no new id twice.
C10_IdMappingOneToOne ==
    \A k \in DOMAIN calls :
        ~calls[k].raised =>
            /\ \A l \in Restored(calls[k].model) :
                   /\ Cardinality({j \in DOMAIN calls[k].old_new_ids :
                                      calls[k].old_new_ids[j][2] = l.id}) = 1
                   /\ \E r \in Range(files[calls[k].model]) :
                          /\ r.payload = l.payload
                          /\ <<r.id, l.id>> \in Range(calls[k].old_new_ids)
            /\ \A j \in DOMAIN calls[k].old_new_ids :
                   \E l \in Restored(calls[k].model) :
                       l.id = calls[k].old_new_ids[j][2]
            /\ \A i, j \in DOMAIN calls[k].old_new_ids :
                   i # j => /\ calls[k].old_new_ids[i][1] # calls[k].old_new_ids[j][1]
                            /\ calls[k].old_new_ids[i][2] # calls[k].old_new_ids[j][2]

\* a transfer returned a mapping with an entry, while a staged row of the
\* table was excluded and has none
C10_Witness ==
    \E k \in DOMAIN calls :
        /\ ~calls[k].raised
        /\ calls[k].old_new_ids # << >>
        /\ Len(calls[k].old_new_ids) < Len(files[calls[k].model])
        /\ calls[k].old_new_ids[1][1] # calls[k].old_new_ids[1][2]

\* the rows of the committed live table t that the restore did not insert
Preexisting(t) == SelectSeq(conn.db.live[t], LAMBDA l : l.payload[2] = 0)

\* C11: in every committed database state of a run, whatever ids the dump
\* holds, the rows each live table held before the run are still there in
\* their place and unchanged, and no two rows of a live table have the same
\* id: every id given to an inserted row differs from the id of every
\* pre-existing row and of every other inserted row of the table.
C11_NoCollision ==
    \E pre \in 0..MaxExisting :
        \A t \in Tables :
            /\ Preexisting(t) = [i \in 1..Existing(t, pre) |-> ExistingRow(t, i)]
            /\ SubSeq(conn.db.live[t], 1, Existing(t, pre)) = Preexisting(t)
            /\ \A i, j \in DOMAIN conn.db.live[t] :
                   i # j => conn.db.live[t][i].id # conn.db.live[t][j].id
            /\ \A l \in Restored(t) : l.id > Existing(t, pre)

\* a finished run that inserted a row dumped with id 1 into a live table
\* which already held a row with id 1
C11_Witness ==
    /\ pc = "done"
    /\ \E t \in Tables :
           /\ \E r \in Range(files[t]) : r.id = 1
           /\ \E l \in Range(Preexisting(t)) : l.id = 1
           /\ \E l \in Restored(t) : l.payload = <<t, 1>>

\* the foreign key columns of the model of call k that the call remaps
Remapped(k) == {kv[1] : kv \in calls[k].foreign_keys}

\* the committed live row that call k inserted for the staged row r
LiveRowOf(k, r) ==
    CHOOSE l \in Range(conn.db.live[calls[k].model]) :
        <<r.id, l.id>> \in Range(calls[k].old_new_ids)

\* C13: for every row a transfer inserted, every live column other than the
\* generated id and the foreign keys named in the call holds the value of
\* the staged row; in particular a foreign key column of the model that the
\* call does not remap is carried over from staging unchanged.
C13_PlainColumnsVerbatim ==
    \A k \in DOMAIN calls :
        ~calls[k].raised =>
            \A r \in Eligible(k) :
                /\ LiveRowOf(k, r).payload = r.payload
                /\ \A f \in ForeignKeyColumns(calls[k].model) \ Remapped(k) :
                       LiveRowOf(k, r).fk[f] = r.fk[f]

\* the calls of transfer_data that returned for a table that was empty
\* before the run
RoundTrips == {k \in DOMAIN calls : ~calls[k].raised
                                     /\ Preexisting(calls[k].model) = << >>}

\* C12 as stated: staging a dump of a table into a run where the live table
\* is empty and transferring it gives a live table with as many rows as the
\* dump, each dumped row having a live row equal to it on every column
\* other than the generated id.
C12_Original ==
    \A k \in RoundTrips :
        /\ Len(conn.db.live[calls[k].model]) = Len(files[calls[k].model])
        /\ \A r \in Range(files[calls[k].model]) :
               \E l \in Range(conn.db.live[calls[k].model]) :
                   l.payload = r.payload /\ l.fk = r.fk

\* C12 as amended: staging a dump of a table into a run where the live
\* table is empty and transferring it successfully gives a live table with
\* exactly one row per dumped row whose every remapped foreign key value has
\* an entry in the Id Mapping passed for it; that row equals the dumped row
\* on the plain columns and holds in each remapped foreign key column the
\* new id the mapping pairs with the dumped value.
C12_RoundTrip ==
    \A k \in RoundTrips :
        /\ Len(conn.db.live[calls[k].model]) = Cardinality(Eligible(k))
        /\ \A r \in Eligible(k) :
               /\ LiveRowOf(k, r).payload = r.payload
               /\ \A f \in Remapped(k) :
                      LiveRowOf(k, r).fk[f] = NewIdOf(PassedMapping(k, f), r.fk[f])
        /\ \A r, q \in Eligible(k) :
               r # q => LiveRowOf(k, r) # LiveRowOf(k, q)

\* a finished run that transferred, into an empty live table, a dump with
\* one row left out for its foreign key and one row inserted with a
\* foreign key that differs from the dumped value
C12_Witness ==
    /\ pc = "done"
    /\ \E k \in RoundTrips :
           /\ Range(files[calls[k].model]) \ Eligible(k) # {}
           /\ \E r \in Eligible(k) : \E f \in Remapped(k) :
                  LiveRowOf(k, r).fk[f] # r.fk[f]

\* the entry of the manifest being staged was staged before in this run
StagedBefore == \E i \in 1..(line - 1) : manifest[i] = manifest[line]

\* a call of safe_restore that returns: whatever was in the staging schema
\* under the derived name, the committed database differs from the one
\* before the call in the staging table of that name alone, which holds the
\* rows of the file with their ids; a second call with the same file
\* changes nothing
C14_Step ==
    (pc = "staging" /\ pc' # "aborted") =>
        /\ conn'.db =
               [conn.db EXCEPT !.staging =
                   (restore_tablename(manifest[line]) :> files[manifest[line]]) @@ @]
        /\ conn'.work = conn'.db
        /\ StagedBefore => conn'.db = conn.db

C15_Step ==
    pc = "staging" =>
        /\ conn.txn = "idle" /\ conn.work = conn.db
        /\ conn'.txn = "idle" /\ conn'.work = conn'.db
        /\ conn'.ops = Append(conn.ops, IF pc' = "aborted" THEN "rollback"
                                        ELSE "commit")
        /\ pc' = "aborted" => conn'.db = conn.db

\* C15: every call of safe_restore is an atomic unit: it ends with exactly
\* one commit (success) or exactly one rollback (failure) and leaves no
\* uncommitted work; when it fails at the drop of the old table, the clone
\* or the bulk load, the committed database is the same as before the call,
\* a staging table of that name left from before included.
C15_StagingAtomic == [][C15_Step]_vars

\* the bulk load failed after the leftover staging table of that name was
\* dropped and created anew in the transaction: the leftover table is there
\* with its content
C15_Witness ==
    /\ pc = "aborted"
    /\ failure.phase = "staging"
    /\ failure.stmt = "COPY"
    /\ restore_tablename(manifest[line]) \in DOMAIN conn.db.staging
    /\ conn.db.staging[restore_tablename(manifest[line])][1].payload[1] = "stale"
    /\ conn.ops[Len(conn.ops)] = "rollback"

\* the positions of the statements with operation op on the translation
\* table of fk
Positions(stmts, op, fk) ==
    {k \in DOMAIN stmts : stmts[k].op = op /\ stmts[k].fk = fk}

\* the statements of one call create the translation table of each entry of
\* foreign_keys once, drop it once, later, and touch no other
CreatedAndDropped(stmts, foreign_keys) ==
    /\ \A kv \in Range(foreign_keys) :
           /\ Cardinality(Positions(stmts, "CREATE translation", kv[1])) = 1
           /\ Cardinality(Positions(stmts, "DROP translation", kv[1])) = 1
           /\ \A c \in Positions(stmts, "CREATE translation", kv[1]) :
                  \A d \in Positions(stmts, "DROP translation", kv[1]) : c < d
    /\ Cardinality({k \in DOMAIN stmts : stmts[k].op = "CREATE translation"})
           = Len(foreign_keys)
    /\ Cardinality({k \in DOMAIN stmts : stmts[k].op = "DROP translation"})
           = Len(foreign_keys)

\* C16: no translation table is ever committed and none exists when a call
\* of transfer_data starts or after it has returned, so that no call fails
\* on the name of a translation table being taken; the statements of a call
\* create and later drop exactly one translation table per entry of
\* foreign_keys.
C16_TranslationScoped ==
    /\ DOMAIN conn.db.translation = {}
    /\ pc # "aborted" => DOMAIN conn.work.translation = {}
    /\ ~(failure.stmt = "CREATE translation" /\ failure.rejected)
    /\ pc = "transfer" =>
           \A foreign_keys \in Orders(Arguments(TransferPlan[step], ids)) :
               CreatedAndDropped(
                   TransferStatements(TransferPlan[step].model, foreign_keys),
                   foreign_keys)

\* the three consecutive transfers that remap hazard_calculation_id have
\* returned and the next one is about to start
C16_Witness ==
    /\ pc = "transfer"
    /\ step = 5
    /\ \A k \in 2..4 :
           /\ ~calls[k].raised
           /\ Remapped(k) = {"hazard_calculation_id"}
           /\ calls[k].old_new_ids # << >>

\* the names of the staging tables of entries from..to of created
NamesOf(from, to) == {restore_tablename(created[i]) : i \in from..to}

\* C17: the entries of the manifest are staged in manifest order, created
\* records one name per entry processed, in that order; no staging table
\* is dropped before all eight transfers have returned, and the cleanup
\* drops the tables in the reverse of the order of created.
C17_StagingAndCleanupOrder ==
    /\ created = SubSeq(manifest, 1, Len(created))
    /\ Len(created) = IF pc = "staging" THEN line - 1
                      ELSE IF failure.phase = "staging" THEN line
                      ELSE Len(manifest)
    /\ pc = "staging" =>
           \A i \in DOMAIN manifest :
               IF i < line
               THEN /\ restore_tablename(manifest[i]) \in DOMAIN conn.db.staging
                    /\ conn.db.staging[restore_tablename(manifest[i])]
                           = files[manifest[i]]
               ELSE \/ \E j \in 1..(line - 1) : manifest[j] = manifest[i]
                    \/ restore_tablename(manifest[i]) \notin DOMAIN conn.db.staging
                    \/ conn.db.staging[restore_tablename(manifest[i])]
                           # files[manifest[i]]
    /\ pc \in {"cleanup", "done"} => AllTransferred
    /\ pc \notin {"cleanup", "done"} =>
           \A i \in 1..(line - 1) :
               restore_tablename(manifest[i]) \in DOMAIN conn.work.staging
    /\ pc = "cleanup" =>
           DOMAIN conn.work.staging
               = DOMAIN conn.db.staging
                     \ NamesOf(Len(created) - drop + 2, Len(created))

\* the cleanup has dropped the tables of the last two entries of created
\* and is about to drop the third from the end
C17_Witness ==
    /\ pc = "cleanup"
    /\ drop = 3
    /\ restore_tablename(created[Len(created) - 2]) \in DOMAIN conn.work.staging
    /\ restore_tablename(created[Len(created) - 1]) \notin DOMAIN conn.work.staging
    /\ restore_tablename(created[Len(created)]) \notin DOMAIN conn.work.staging

\* every staging table recorded in created is in the committed database
\* with the rows of its file
AllStaged ==
    \A t \in Range(created) :
        /\ restore_tablename(t) \in DOMAIN conn.db.staging
        /\ conn.db.staging[restore_tablename(t)] = files[t]

\* one iteration of the cleanup: the committed database holds every
\* recorded staging table until the loop ends; a drop that succeeds and is
\* not the last commits nothing; the last drop is followed by the one
\* commit, after which no recorded staging table exists; a failing drop is
\* followed by the one rollback, after which the committed database is the
\* one the cleanup began with and nothing is pending
C18_Step ==
    pc = "cleanup" =>
        /\ AllStaged
        /\ conn'.db.live = conn.db.live
        /\ pc' = "cleanup" => conn'.db = conn.db /\ conn'.ops = conn.ops
        /\ (pc' = "done" /\ failure' = NoFailure) =>
               /\ conn'.ops = Append(conn.ops, "commit")
               /\ \A t \in Range(created) :
                      restore_tablename(t) \notin DOMAIN conn'.db.staging
               /\ conn'.work = conn'.db
        /\ (pc' = "done" /\ failure' # NoFailure) =>
               /\ conn'.ops = Append(conn.ops, "rollback")
               /\ conn'.db = conn.db
               /\ conn'.work = conn'.db
        /\ pc' \in {"cleanup", "done"}

\* C18: the cleanup is all-or-nothing: its drops run in one transaction
\* that is committed once after the last drop or rolled back at the first
\* failing drop, so that when hazard_restore returns either every recorded
\* staging table is dropped or every staging table that existed when the
\* cleanup began still exists with its content; no partial state is
\* committed, also when the manifest lists a table twice.
C18_CleanupAllOrNothing == [][C18_Step]_vars

\* hazard_restore returned after the second drop of a table listed twice
\* was rejected, drops before it having succeeded: every recorded staging
\* table is in the committed database
C18_Witness ==
    /\ pc = "done"
    /\ failure.phase = "cleanup"
    /\ failure.rejected
    /\ drop > 1
    /\ \E i, j \in DOMAIN created : i < j /\ created[i] = created[j]
    /\ AllStaged
    /\ ret.returned

\* C19: no committed database state of a run has the helper column
\* restore_id on a live table or a value of it in a live row: the column is
\* added and dropped within the transaction of one transfer, before its
\* commit, and is on no table between the calls.
C19_HelperColumnScoped ==
    /\ conn.db.helper = {}
    /\ \A t \in Tables : \A l \in Range(conn.db.live[t]) : l.restore_id = NULL
    /\ pc # "aborted" => conn.work.helper = {}
    /\ pc = "transfer" =>
           \A foreign_keys \in Orders(Arguments(TransferPlan[step], ids)) :
               \A k \in Positions(TransferStatements(TransferPlan[step].model,
                                                     foreign_keys),
                                  "ADD restore_id", "") :
                   \E d \in Positions(TransferStatements(TransferPlan[step].model,
                                                         foreign_keys),
                                      "DROP restore_id", "") : k < d

\* a transfer has inserted rows, taking their staged ids through
\* restore_id, and committed
C19_Witness ==
    /\ Len(calls) > 1
    /\ ~calls[2].raised
    /\ calls[2].old_new_ids # << >>
    /\ Restored("LtRealization") # {}
    /\ conn.ops[Len(conn.ops)] = "commit"

\* C20: when a transfer fails, hazard_restore raises with the rows of the
\* transfers before it committed in the live tables, nothing of the failed
\* transfer committed, every staging table created by the run still in the
\* committed database, no drop of the cleanup issued, nothing rolled back
\* and no value returned.
C20_NotAtomic ==
    (pc = "aborted" /\ failure.phase = "transfer") =>
        /\ calls[Len(calls)].raised
        /\ \A k \in 1..(Len(calls) - 1) :
               /\ ~calls[k].raised
               /\ \A pair \in Range(calls[k].old_new_ids) :
                      \E l \in Restored(calls[k].model) : l.id = pair[2]
        /\ Restored(calls[Len(calls)].model) = {}
        /\ AllStaged
        /\ DOMAIN conn.work.staging = DOMAIN conn.db.staging
        /\ drop = 1
        /\ ~ret.returned
        /\ conn.ops = [k \in 1..(Len(manifest) + Len(calls) - 1) |-> "commit"]

\* the fifth transfer failed because the manifest does not list its table,
\* so that it has no staging table; the rows of the root table inserted by
\* the first transfer are committed
C20_Witness ==
    /\ pc = "aborted"
    /\ failure = [phase |-> "transfer", stmt |-> "INSERT SELECT", rejected |-> TRUE]
    /\ Len(calls) = 5
    /\ calls[5].model \notin Range(manifest)
    /\ Restored("HazardCalculation") # {}
    /\ Restored("OqJob") # {}

====
